---- MODULE Spec2Model ----
(***************************************************************************)
(* Model of proxy_ping_gui.py: the countdown-driven refresh cycle of       *)
(* PingApp (countdown_tick, run_pings, collect_results, finish_pinging,    *)
(* update_row), the ThreadPoolExecutor that runs run_ping, and the Tk      *)
(* event queue that carries the collector thread's callbacks to the loop.  *)
(***************************************************************************)
EXTENDS Integers, Sequences, FiniteSets, TLC

(* ------------------------------ bounds --------------------------------- *)

\* Number of entries of PROXIES the model keeps (the source lists twelve).
NumEndpoints == 2

\* Number of round closures (futures dict + collector thread) that may be
\* alive at once; the code itself never needs more than one.
MaxLive == 2

(* ------------------------------ CONFIG --------------------------------- *)

AllProxyNames ==
    <<"Spain", "Miami", "United Kingdom", "Poland", "France", "New York",
      "Middle East", "Brazil", "Australia", "Philippines", "Indonesia",
      "Malaysia">>

AllProxyIPs ==
    <<"0.0.0.0", "0.0.0.0", "0.0.0.0", "0.0.0.0", "0.0.0.0", "0.0.0.0",
      "0.0.0.0", "0.0.0.0", "0.0.0.0", "38.60.245.148", "38.60.179.187",
      "130.94.69.118">>

\* PROXIES.items(): the configured names in insertion order.
ProxyOrder == SubSeq(AllProxyNames, 1, NumEndpoints)

Names == {ProxyOrder[i] : i \in 1..Len(ProxyOrder)}

\* PROXIES[name]
PROXIES(name) ==
    AllProxyIPs[CHOOSE i \in 1..Len(AllProxyNames) : AllProxyNames[i] = name]

PING_COUNT == 4

REFRESH_INTERVAL == 5

(* ------------------------------ PingResult ----------------------------- *)

\* PingResult(sent, received, times); times or [] keeps the list as given.
PingResult(sent, received, times) ==
    [sent |-> sent, received |-> received, times |-> times]

\* PingResult() with the default arguments.
PingResultDefault == PingResult(0, 0, <<>>)

RECURSIVE SumSeq(_)
SumSeq(s) == IF s = <<>> THEN 0 ELSE Head(s) + SumSeq(Tail(s))

RECURSIVE SumSq(_)
SumSq(s) == IF s = <<>> THEN 0 ELSE Head(s) * Head(s) + SumSq(Tail(s))

\* round(p / q) for p >= 0, q > 0, ties to the even neighbour.
RoundDiv(p, q) ==
    LET d == p \div q
        r == p % q
    IN  IF 2 * r < q THEN d
        ELSE IF 2 * r > q THEN d + 1
        ELSE IF d % 2 = 0 THEN d ELSE d + 1

\* Greatest j in lo..hi with (2j-1)^2 * b <= 4a: the integer nearest to
\* sqrt(a / b), found by bisection.
RECURSIVE NearestRoot(_, _, _, _)
NearestRoot(a, b, lo, hi) ==
    IF lo >= hi THEN lo
    ELSE LET mid == (lo + hi + 1) \div 2
         IN  IF (2 * mid - 1) * (2 * mid - 1) * b <= 4 * a
             THEN NearestRoot(a, b, mid, hi)
             ELSE NearestRoot(a, b, lo, mid - 1)

\* Variant: the share of packets received instead of the share lost.
packet_lossReceived(res) ==
    IF res.sent = 0 THEN 10000
    ELSE RoundDiv(10000 * res.received, res.sent)

\* Numbers with two decimals are kept as integers in hundredths.
\* packet_loss: 100.0 when sent = 0, else round((1 - received/sent)*100, 2).
\* A received above sent gives a negative loss, as the float expression does.
packet_loss(res) ==
    IF res.sent = 0 THEN 10000
    ELSE IF res.received <= res.sent
         THEN RoundDiv(10000 * (res.sent - res.received), res.sent)
         ELSE 0 - RoundDiv(10000 * (res.received - res.sent), res.sent)

\* avg: round(mean(times), 2) if times else None (None is -1 here).
AvgNone == 0 - 1

avg(res) ==
    IF res.times = <<>> THEN AvgNone
    ELSE RoundDiv(100 * SumSeq(res.times), Len(res.times))

\* Variant: the first reply time taken for the least one.
minimumFirst(res) ==
    IF res.times = <<>> THEN 0 - 1 ELSE Head(res.times)

\* minimum / maximum: min(times) / max(times) if times else None.
minimum(res) ==
    IF res.times = <<>> THEN AvgNone
    ELSE CHOOSE x \in {res.times[i] : i \in 1..Len(res.times)} :
            \A i \in 1..Len(res.times) : x <= res.times[i]

maximum(res) ==
    IF res.times = <<>> THEN AvgNone
    ELSE CHOOSE x \in {res.times[i] : i \in 1..Len(res.times)} :
            \A i \in 1..Len(res.times) : x >= res.times[i]

\* jitter: 0 below two samples, else round(stdev(times), 2) (sample stdev).
jitter(res) ==
    LET n == Len(res.times)
        s == SumSeq(res.times)
    IN  IF n < 2 THEN 0
        ELSE NearestRoot(10000 * (n * SumSq(res.times) - s * s), n * (n - 1),
                         0, 100 * maximum(res))

(* ------------------------------ run_ping ------------------------------- *)

\* What the ping subprocess did: whether it could be launched, the tokens the
\* time regex captures (each a float literal or not), and the (Sent, Received)
\* pair of a "Sent = s, Received = r" summary line when one is printed.
ProbeOutput(launched, tokens, summary) ==
    [launched |-> launched, tokens |-> tokens, summary |-> summary]

Tok(v) == [isfloat |-> TRUE, val |-> v]

\* "[\d\.]+" also captures text such as "." that float() rejects.
NotAFloat == [isfloat |-> FALSE, val |-> 0]

ProbeOutputs ==
    { ProbeOutput(TRUE, <<Tok(50), Tok(48)>>, <<>>),  \* unix, 2 of 4 replies
      ProbeOutput(TRUE, <<>>, <<>>),                  \* no reply, no summary
      ProbeOutput(TRUE, <<>>, <<<<4, 4>>>>),          \* "Destination host unreachable" replies
      ProbeOutput(TRUE, <<NotAFloat>>, <<>>),         \* float(t) raises ValueError
      ProbeOutput(FALSE, <<>>, <<>>) }                \* subprocess.run raises

\* Reply times a ping prints, in ms.
TimeValues == {1, 48, 50, 52}

\* Every output of a ping asked for PING_COUNT packets: up to PING_COUNT
\* captured times, and either no summary line or one whose counters satisfy
\* Received <= Sent <= PING_COUNT (unreachable-host replies count as
\* received without carrying a time); plus the two ways run_ping raises.
AllProbeOutputs ==
    { ProbeOutput(TRUE, [i \in 1..Len(ts) |-> Tok(ts[i])], sm) :
        ts \in UNION {[1..k -> TimeValues] : k \in 0..PING_COUNT},
        sm \in {<<>>} \cup
               {<<<<p[1], p[2]>>>> :
                   p \in {q \in (0..PING_COUNT) \X (0..PING_COUNT) :
                             q[2] <= q[1]}} }
    \cup { ProbeOutput(TRUE, <<NotAFloat>>, <<>>),
           ProbeOutput(FALSE, <<>>, <<>>) }

\* [float(t) for t in times]
RECURSIVE TokenValues(_)
TokenValues(toks) ==
    IF toks = <<>> THEN <<>>
    ELSE <<Head(toks).val>> \o TokenValues(Tail(toks))

\* Outcome of a call: a returned PingResult or a raised exception.
Returned(res) == [raised |-> FALSE, val |-> res]

Raised == [raised |-> TRUE, val |-> PingResultDefault]

run_ping(out, count) ==
    IF ~out.launched THEN Raised
    ELSE IF \E i \in 1..Len(out.tokens) : ~out.tokens[i].isfloat THEN Raised
    ELSE LET times == TokenValues(out.tokens)
         IN  IF out.summary # <<>>
             THEN Returned(PingResult(out.summary[1][1], out.summary[1][2], times))
             ELSE Returned(PingResult(count, Len(times), times))

(* ------------------------------ state ---------------------------------- *)

VARIABLES
    constructed,        \* FALSE until __init__ has made its call of countdown_tick
    countdown_seconds,  \* self.countdown_seconds
    is_pinging,         \* self.is_pinging
    timestamp,          \* text of the self.timestamp label
    tree,               \* values of each row of self.tree, by iid
    tick_timers,        \* pending root.after(1000, countdown_tick) timers
    queue,              \* pending root.after(0, ...) callbacks, oldest first
    workq,              \* the executor's work queue, oldest first
    rounds,             \* the run_pings closures still alive, oldest first
    calc                \* one sample followed from the subprocess to its row

vars == <<constructed, countdown_seconds, is_pinging, timestamp, tree,
          tick_timers, queue, workq, rounds, calc>>

\* A cell of the display: fixed text, or a number (hundredths where the source
\* shows a rounded float) followed by a unit.
Text(s) == [t |-> s, n |-> 0]

Num(x, unit) == [t |-> unit, n |-> x]

Row(name, ip, a, mn, mx, j, loss) ==
    [name |-> name, ip |-> ip, avg |-> a, min |-> mn, max |-> mx,
     jitter |-> j, loss |-> loss]

\* create_widgets: every row starts as "Loading...".
LoadingRow(name) ==
    Row(name, PROXIES(name), Text("Loading..."), Text("-"), Text("-"),
        Text("-"), Text("-"))

\* update_row, received == 0 branch.
DownRow(name) ==
    Row(name, PROXIES(name), Text("DOWN"), Text("-"), Text("-"), Text("-"),
        Text("100%"))

\* update_row, the other branch.
UpRow(name, res) ==
    Row(name, PROXIES(name), Num(avg(res), " ms"), Num(minimum(res), ""),
        Num(maximum(res), ""), Num(jitter(res), ""),
        Num(packet_loss(res), "%"))

UpdatingText == Text("Updating...")

\* Variant: the label showing the value left after the decrement.
NextUpdateTextAfter(secs) == Num(secs - 1, "Next Update: s")

NextUpdateText(secs) == Num(secs, "Next Update: s")

\* Variant: a constructor that waits a full interval before the first round.
InitialCountdownLate == REFRESH_INTERVAL

\* Value of self.countdown_seconds set by __init__.
InitialCountdown == 0

\* Variant: a pool one thread short of the number of endpoints.
max_workersShort == Len(ProxyOrder) - 1

\* ThreadPoolExecutor(max_workers=len(PROXIES))
max_workers == Len(ProxyOrder)

(* ------------------------------ futures -------------------------------- *)

FutureQueued == [st |-> "queued", val |-> PingResultDefault]

FutureRunning == [st |-> "running", val |-> PingResultDefault]

\* The future after run_ping returned or raised.
FutureOf(outcome) ==
    IF outcome.raised THEN [st |-> "exception", val |-> PingResultDefault]
    ELSE [st |-> "result", val |-> outcome.val]

\* Variant: a result() that returns as soon as the call has been started.
FutureDoneOnceStarted(f) == f.st # "queued"

\* Variant: a result() that never comes back when the call raised.
FutureDoneResultOnly(f) == f.st = "result"

\* Variant: a result() that does not wait for the call to finish.
FutureDoneNoWait(f) == TRUE

\* future.result() returns (or raises) only once the call has finished.
FutureDone(f) == f.st \in {"result", "exception"}

\* Variant: a fallback sample that reports the packets as sent.
CollectedResultSent(f) ==
    IF f.st = "result" THEN f.val ELSE PingResult(PING_COUNT, 0, <<>>)

\* try: results[name] = future.result()
\* except Exception: results[name] = PingResult()
CollectedResult(f) ==
    IF f.st = "result" THEN f.val ELSE PingResultDefault

\* for name, ip in PROXIES.items(): futures[name] = self.executor.submit(...)
SubmitOrder == ProxyOrder

\* Variant: a dispatch loop that skips the first collected entry.
ResultItemsSkipFirst(results) ==
    Tail(SelectSeq(ProxyOrder, LAMBDA n : n \in DOMAIN results))

\* for name, result in results.items(): the collected names, insertion order.
ResultItems(results) ==
    SelectSeq(ProxyOrder, LAMBDA n : n \in DOMAIN results)

\* Variant: a callback queue that runs the newest callback first.
EnqueueFront(q, ev) == <<ev>> \o q

\* root.after(0, callback): timers that are due run in the order they were set.
Enqueue(q, ev) == Append(q, ev)

UpdateRowEvent(rid, name, res) ==
    [cb |-> "update_row", rid |-> rid, name |-> name, result |-> res]

FinishEvent(rid) ==
    [cb |-> "finish_pinging", rid |-> rid, name |-> "",
     result |-> PingResultDefault]

Count(seq, x) == Cardinality({i \in 1..Len(seq) : seq[i] = x})

\* The closure run_pings creates: futures, the collector thread's position
\* (cpc, ci) and its results dict, plus how often each step happened.
NewRound(rid) ==
    [id        |-> rid,
     fut       |-> [n \in Names |-> FutureQueued],
     submitted |-> [n \in Names |-> Count(SubmitOrder, n)],
     results   |-> <<>>,
     cpc       |-> "collect",
     ci        |-> 1,
     posted    |-> [n \in Names |-> 0],
     updated   |-> [n \in Names |-> 0],
     finposted |-> 0,
     fincount  |-> 0]

QueueMentions(rid) == \E k \in 1..Len(queue) : queue[k].rid = rid

\* A closure nothing refers to any more: its collector has ended, its
\* callbacks have run and its futures are finished.
Retired(r) ==
    /\ r.fincount > 0
    /\ r.cpc = "done"
    /\ ~QueueMentions(r.id)
    /\ \A n \in Names : r.fut[n].st \in {"result", "exception"}

LiveRounds == SelectSeq(rounds, LAMBDA r : ~Retired(r))

UsedIds(rs) == {rs[i].id : i \in 1..Len(rs)}

RoundAt(rid) == CHOOSE i \in 1..Len(rounds) : rounds[i].id = rid

NumRunning ==
    Cardinality({<<i, n>> \in (1..Len(rounds)) \X Names :
                    rounds[i].fut[n].st = "running"})

\* The path of one sample: the subprocess output, what run_ping made of it,
\* the sample collect_results stored, and the endpoint whose row shows it.
Calc(pc, name, out, outcome, sample) ==
    [pc |-> pc, name |-> name, out |-> out, outcome |-> outcome,
     sample |-> sample]

\* No sample is being followed.
CalcOff ==
    Calc("off", ProxyOrder[1], ProbeOutput(FALSE, <<>>, <<>>), Raised,
         PingResultDefault)

(* ------------------------------ Init ----------------------------------- *)

\* __init__ up to, not including, its call of countdown_tick.
Init ==
    /\ constructed = FALSE
    /\ countdown_seconds = InitialCountdown
    /\ is_pinging = FALSE
    /\ timestamp = UpdatingText
    /\ tree = [n \in Names |-> LoadingRow(n)]
    /\ tick_timers = 0
    /\ queue = <<>>
    /\ workq = <<>>
    /\ rounds = <<>>
    /\ calc = CalcOff

(* ------------------------------ the timer loop ------------------------- *)

\* Variant: a tick that keeps counting down while a round is in flight.
TickBranchCounting(pinging, secs) ==
    IF pinging \/ secs > 0 THEN "countdown" ELSE "run_pings"

\* Variant: a tick that does not look at is_pinging.
TickBranchNoFlag(pinging, secs) ==
    IF secs > 0 THEN "countdown" ELSE "run_pings"

\* The if / elif / else of countdown_tick.
TickBranch(pinging, secs) ==
    IF pinging THEN "updating"
    ELSE IF secs > 0 THEN "countdown"
    ELSE "run_pings"

\* run_pings: set the flag, submit one run_ping per entry, start the collector.
run_pings ==
    LET live == LiveRounds
        rid  == CHOOSE k \in 1..MaxLive :
                    /\ k \notin UsedIds(live)
                    /\ \A m \in 1..(k - 1) : m \in UsedIds(live)
    IN  /\ Len(live) < MaxLive
        /\ is_pinging' = TRUE
        /\ workq' = workq \o [k \in 1..Len(SubmitOrder) |->
                                 [rid |-> rid, name |-> SubmitOrder[k]]]
        /\ rounds' = Append(live, NewRound(rid))

countdown_tick ==
    LET branch == TickBranch(is_pinging, countdown_seconds)
    IN  /\ \/ /\ branch = "updating"
              /\ timestamp' = UpdatingText
              /\ UNCHANGED <<countdown_seconds, is_pinging, workq, rounds>>
           \/ /\ branch = "countdown"
              /\ timestamp' = NextUpdateText(countdown_seconds)
              /\ countdown_seconds' = countdown_seconds - 1
              /\ UNCHANGED <<is_pinging, workq, rounds>>
           \/ /\ branch = "run_pings"
              /\ run_pings
              /\ UNCHANGED <<timestamp, countdown_seconds>>
        /\ UNCHANGED <<tree, queue>>

\* __init__'s own call of countdown_tick, which arms the first timer.
InitTick ==
    /\ ~constructed
    /\ countdown_tick
    /\ constructed' = TRUE
    /\ tick_timers' = tick_timers + 1
    /\ UNCHANGED calc

\* Variant: a loop that cannot run a tick until the probes have finished.
TimerTickBlocking ==
    /\ constructed
    /\ tick_timers > 0
    /\ \A i \in 1..Len(rounds), n \in Names :
          rounds[i].fut[n].st \in {"result", "exception"}
    /\ countdown_tick
    /\ tick_timers' = (tick_timers - 1) + 1
    /\ UNCHANGED <<constructed, calc>>

\* Variant: a tick that does not arm its successor.
TimerTickNoRearm ==
    /\ constructed
    /\ tick_timers > 0
    /\ countdown_tick
    /\ tick_timers' = tick_timers - 1
    /\ UNCHANGED <<constructed, calc>>

\* A due timer runs countdown_tick, which arms the next one.
TimerTick ==
    /\ constructed
    /\ tick_timers > 0
    /\ countdown_tick
    /\ tick_timers' = (tick_timers - 1) + 1
    /\ UNCHANGED <<constructed, calc>>

(* ------------------------------ the executor --------------------------- *)

\* An idle or new worker thread takes the oldest queued call.
WorkerStart ==
    /\ workq # <<>>
    /\ NumRunning < max_workers
    /\ LET task == Head(workq)
           i    == RoundAt(task.rid)
       IN  rounds' = [rounds EXCEPT ![i].fut[task.name] = FutureRunning]
    /\ workq' = Tail(workq)
    /\ UNCHANGED <<constructed, countdown_seconds, is_pinging, timestamp,
                   tree, tick_timers, queue, calc>>

\* run_ping(ip, PING_COUNT) ends in a worker and settles its future.
ProbeFinish ==
    \E i \in 1..Len(rounds), n \in Names, out \in ProbeOutputs :
        /\ rounds[i].fut[n].st = "running"
        /\ rounds' = [rounds EXCEPT
                         ![i].fut[n] = FutureOf(run_ping(out, PING_COUNT))]
        /\ UNCHANGED <<constructed, countdown_seconds, is_pinging, timestamp,
                       tree, tick_timers, queue, workq, calc>>

(* ------------------------------ collect_results ------------------------ *)

\* First loop: wait for the next future and store its result.
CollectResult ==
    \E i \in 1..Len(rounds) :
        LET r == rounds[i]
            n == ProxyOrder[r.ci]
            res == r.results @@ (n :> CollectedResult(r.fut[n]))
            last == r.ci = Len(ProxyOrder)
        IN  /\ r.cpc = "collect"
            /\ FutureDone(r.fut[n])
            /\ rounds' = [rounds EXCEPT
                   ![i].results = res,
                   ![i].ci = IF last THEN 1 ELSE r.ci + 1,
                   ![i].cpc = IF ~last THEN "collect"
                              ELSE IF ResultItems(res) = <<>> THEN "finish"
                              ELSE "dispatch"]
            /\ UNCHANGED <<constructed, countdown_seconds, is_pinging,
                           timestamp, tree, tick_timers, queue, workq, calc>>

\* Second loop: self.root.after(0, self.update_row, name, result).
DispatchRow ==
    \E i \in 1..Len(rounds) :
        LET r == rounds[i]
            items == ResultItems(r.results)
            n == items[r.ci]
        IN  /\ r.cpc = "dispatch"
            /\ queue' = Enqueue(queue, UpdateRowEvent(r.id, n, r.results[n]))
            /\ rounds' = [rounds EXCEPT
                   ![i].posted[n] = @ + 1,
                   ![i].ci = r.ci + 1,
                   ![i].cpc = IF r.ci = Len(items) THEN "finish"
                              ELSE "dispatch"]
            /\ UNCHANGED <<constructed, countdown_seconds, is_pinging,
                           timestamp, tree, tick_timers, workq, calc>>

\* Variant: a collector thread that calls finish_pinging itself.
PostFinishDirect ==
    \E i \in 1..Len(rounds) :
        /\ rounds[i].cpc = "finish"
        /\ countdown_seconds' = REFRESH_INTERVAL
        /\ is_pinging' = FALSE
        /\ rounds' = [rounds EXCEPT ![i].finposted = @ + 1,
                                    ![i].fincount = @ + 1,
                                    ![i].cpc = "done"]
        /\ UNCHANGED <<constructed, timestamp, tree, tick_timers, queue,
                       workq, calc>>

\* self.root.after(0, finish_pinging); the thread then ends.
PostFinish ==
    \E i \in 1..Len(rounds) :
        /\ rounds[i].cpc = "finish"
        /\ queue' = Enqueue(queue, FinishEvent(rounds[i].id))
        /\ rounds' = [rounds EXCEPT ![i].finposted = @ + 1,
                                    ![i].cpc = "done"]
        /\ UNCHANGED <<constructed, countdown_seconds, is_pinging, timestamp,
                       tree, tick_timers, workq, calc>>

(* ------------------------------ queued callbacks ----------------------- *)

\* Variant: DOWN decided by the absence of reply times.
update_rowByTimes(name, res) ==
    IF res.times = <<>>
    THEN tree' = [tree EXCEPT ![name] = DownRow(name)]
    ELSE tree' = [tree EXCEPT ![name] = UpRow(name, res)]

\* update_row(name, result). With received > 0 and no times, avg is None and
\* the colour comparison raises before the row is written; Tk reports the
\* error and the loop goes on.
update_row(name, res) ==
    IF res.received = 0
    THEN tree' = [tree EXCEPT ![name] = DownRow(name)]
    ELSE IF avg(res) = AvgNone
    THEN tree' = tree
    ELSE tree' = [tree EXCEPT ![name] = UpRow(name, res)]

RunUpdateRow ==
    /\ queue # <<>>
    /\ Head(queue).cb = "update_row"
    /\ LET ev == Head(queue)
       IN  /\ update_row(ev.name, ev.result)
           /\ rounds' = [rounds EXCEPT
                            ![RoundAt(ev.rid)].updated[ev.name] = @ + 1]
    /\ queue' = Tail(queue)
    /\ UNCHANGED <<constructed, countdown_seconds, is_pinging, timestamp,
                   tick_timers, workq, calc>>

\* Variant: a countdown re-armed one second short.
FinishCountdownShort == REFRESH_INTERVAL - 1

\* Value finish_pinging gives self.countdown_seconds.
FinishCountdown == REFRESH_INTERVAL

\* finish_pinging()
RunFinishPinging ==
    /\ queue # <<>>
    /\ Head(queue).cb = "finish_pinging"
    /\ countdown_seconds' = FinishCountdown
    /\ is_pinging' = FALSE
    /\ rounds' = [rounds EXCEPT ![RoundAt(Head(queue).rid)].fincount = @ + 1]
    /\ queue' = Tail(queue)
    /\ UNCHANGED <<constructed, timestamp, tree, tick_timers, workq, calc>>

(* ------------------------------ one sample ---------------------------- *)

\* A sample followed alone from the subprocess output to the row, through
\* the same run_ping, try/except and update_row as in a round.
SampleInit ==
    /\ constructed = FALSE
    /\ countdown_seconds = InitialCountdown
    /\ is_pinging = FALSE
    /\ timestamp = UpdatingText
    /\ tree = [n \in Names |-> LoadingRow(n)]
    /\ tick_timers = 0
    /\ queue = <<>>
    /\ workq = <<>>
    /\ rounds = <<>>
    /\ \E n \in Names, out \in AllProbeOutputs :
          calc = Calc("run_ping", n, out, Raised, PingResultDefault)

\* run_ping(ip, PING_COUNT) in a worker.
SampleRunPing ==
    /\ calc.pc = "run_ping"
    /\ calc' = [calc EXCEPT !.pc = "collect",
                            !.outcome = run_ping(calc.out, PING_COUNT)]
    /\ UNCHANGED <<constructed, countdown_seconds, is_pinging, timestamp,
                   tree, tick_timers, queue, workq, rounds>>

\* results[name] = future.result(), or PingResult() on an exception.
SampleCollect ==
    /\ calc.pc = "collect"
    /\ calc' = [calc EXCEPT !.pc = "update_row",
                            !.sample = CollectedResult(FutureOf(calc.outcome))]
    /\ UNCHANGED <<constructed, countdown_seconds, is_pinging, timestamp,
                   tree, tick_timers, queue, workq, rounds>>

\* update_row(name, result) run by the loop.
SampleUpdateRow ==
    /\ calc.pc = "update_row"
    /\ update_row(calc.name, calc.sample)
    /\ calc' = [calc EXCEPT !.pc = "shown"]
    /\ UNCHANGED <<constructed, countdown_seconds, is_pinging, timestamp,
                   tick_timers, queue, workq, rounds>>

SampleNext == SampleRunPing \/ SampleCollect \/ SampleUpdateRow

SampleSpec == SampleInit /\ [][SampleNext]_vars

(* ------------------------------ specification -------------------------- *)

Next ==
    \/ InitTick
    \/ TimerTick
    \/ WorkerStart
    \/ ProbeFinish
    \/ CollectResult
    \/ DispatchRow
    \/ PostFinish
    \/ RunUpdateRow
    \/ RunFinishPinging

Spec == Init /\ [][Next]_vars

\* The same program with the scheduling the runtime gives: a due timer, a
\* queued callback, a queued executor call and a runnable collector thread
\* each get to run. Nothing obliges a ping subprocess to end.
FairSpec ==
    /\ Spec
    /\ WF_vars(InitTick)
    /\ WF_vars(TimerTick)
    /\ WF_vars(WorkerStart)
    /\ WF_vars(CollectResult)
    /\ WF_vars(DispatchRow)
    /\ WF_vars(PostFinish)
    /\ WF_vars(RunUpdateRow)
    /\ WF_vars(RunFinishPinging)

\* FairSpec for runs in which every probe eventually returns or raises.
LiveSpec == FairSpec /\ WF_vars(ProbeFinish)

(* ------------------------------ properties ----------------------------- *)

\* Rounds whose finish_pinging has not run yet.
InFlight == {i \in 1..Len(rounds) : rounds[i].fincount = 0}

\* A step that submits probes to the executor, i.e. a call of run_pings.
Submits == Len(workq') > Len(workq)

AllSettled(r) == \A n \in Names : r.fut[n].st \in {"result", "exception"}

PendingUpdates(rid) ==
    {k \in 1..Len(queue) : queue[k].cb = "update_row" /\ queue[k].rid = rid}

\* C1: at most one round is in flight in every reachable state, and run_pings
\* is never invoked while is_pinging is True or while an earlier round has
\* not yet executed its finish_pinging.
C1_MutualExclusion ==
    /\ [](Cardinality(InFlight) <= 1)
    /\ [][Submits => (~is_pinging /\ InFlight = {})]_vars

\* A round started after a countdown is in flight with callbacks queued and
\* a tick due.
C1_Witness ==
    /\ is_pinging
    /\ Cardinality(InFlight) = 1
    /\ timestamp = NextUpdateText(1)
    /\ tick_timers > 0
    /\ queue # <<>>

\* C2: finish_pinging of a round is neither scheduled nor executed, and the
\* flag is not cleared, while a probe of that round has no outcome yet.
C2_CompletionGated ==
    /\ \A i \in 1..Len(rounds) :
          (rounds[i].finposted > 0 \/ rounds[i].fincount > 0)
              => AllSettled(rounds[i])
    /\ (constructed /\ ~is_pinging)
          => \A i \in 1..Len(rounds) : AllSettled(rounds[i])

\* finish_pinging has been scheduled for a round in which one probe raised
\* and another returned.
C2_Witness ==
    \E i \in 1..Len(rounds) :
        /\ rounds[i].finposted = 1
        /\ rounds[i].fincount = 0
        /\ \E n, m \in Names : /\ rounds[i].fut[n].st = "exception"
                               /\ rounds[i].fut[m].st = "result"

\* C3: when finish_pinging of a round has run, every update_row of that round
\* has run before it; and once a later round exists, no update_row of an
\* earlier round is still to be posted or executed.
C3_FinishAfterUpdates ==
    /\ \A i \in 1..Len(rounds) :
          rounds[i].fincount > 0 =>
              /\ rounds[i].cpc = "done"
              /\ PendingUpdates(rounds[i].id) = {}
              /\ \A n \in Names : /\ rounds[i].updated[n] >= 1
                                  /\ rounds[i].updated[n] = rounds[i].posted[n]
    /\ \A i, j \in 1..Len(rounds) :
          i < j => /\ rounds[i].cpc = "done"
                   /\ PendingUpdates(rounds[i].id) = {}

\* finish_pinging has run after both update_row callbacks of its round.
C3_Witness ==
    \E i \in 1..Len(rounds) :
        /\ rounds[i].fincount = 1
        /\ \A n \in Names : rounds[i].updated[n] = 1
        /\ ~is_pinging
        /\ countdown_seconds = REFRESH_INTERVAL

\* C4 as stated: once a probe of a round has its outcome, the update_row of
\* that endpoint is eventually emitted, whatever the other probes do.
C4_StreamingDispatch ==
    \A n \in Names :
        (\E i \in 1..Len(rounds) : /\ rounds[i].fut[n].st \in {"result", "exception"}
                                   /\ rounds[i].posted[n] = 0)
        ~> (\E i \in 1..Len(rounds) : rounds[i].posted[n] > 0)

\* C4 amended: update_row callbacks of a round are emitted as one batch after
\* every probe of the round has produced its outcome, never before; and once
\* all probes of a round have their outcome, every endpoint's update_row is
\* eventually emitted.
C4_BatchDispatch ==
    /\ [](\A i \in 1..Len(rounds) :
            (\E n \in Names : rounds[i].posted[n] > 0 \/ PendingUpdates(rounds[i].id) # {})
                => AllSettled(rounds[i]))
    /\ \A n \in Names :
          (\E i \in 1..Len(rounds) : AllSettled(rounds[i]) /\ rounds[i].posted[n] = 0)
          ~> (\E i \in 1..Len(rounds) : rounds[i].posted[n] > 0)

\* The first update_row of a round has been emitted, the others not yet.
C4_Witness ==
    \E i \in 1..Len(rounds) :
        /\ rounds[i].cpc = "dispatch"
        /\ \E n, m \in Names : /\ rounds[i].posted[n] = 1
                               /\ rounds[i].posted[m] = 0
                               /\ rounds[i].fut[m].st = "result"

\* C5: a probe that raises does not abort its round. Its collected sample is
\* PingResult(0, 0, []) and its row, once update_row has run, shows DOWN with
\* "100%"; every endpoint whose probe returned is collected and dispatched
\* with the sample that probe returned; and a round in which probes raised
\* (any of them, or all) still runs every update_row and finish_pinging.
C5_FailureIsolation ==
    /\ [](\A i \in 1..Len(rounds), n \in Names :
            LET r == rounds[i]
            IN  /\ (n \in DOMAIN r.results /\ r.fut[n].st = "exception")
                      => r.results[n] = PingResult(0, 0, <<>>)
                /\ (n \in DOMAIN r.results /\ r.fut[n].st = "result")
                      => r.results[n] = r.fut[n].val
                /\ \A k \in PendingUpdates(r.id) :
                      queue[k].name = n =>
                          /\ n \in DOMAIN r.results
                          /\ queue[k].result = r.results[n]
                /\ (r.fut[n].st = "exception" /\ r.updated[n] > 0)
                      => /\ tree[n].avg = Text("DOWN")
                         /\ tree[n].loss = Text("100%")
                         /\ tree[n] = DownRow(n))
    /\ (\E i \in InFlight, n \in Names : rounds[i].fut[n].st = "exception")
          ~> (\E i \in 1..Len(rounds) :
                 /\ rounds[i].fincount = 1
                 /\ \A n \in Names : rounds[i].updated[n] = 1)

\* A round in which every probe raised has completed with all rows DOWN.
C5_Witness ==
    \E i \in 1..Len(rounds) :
        /\ rounds[i].fincount = 1
        /\ \A n \in Names : /\ rounds[i].fut[n].st = "exception"
                            /\ tree[n] = DownRow(n)

\* C6: before the first tick the countdown is 0 and no round is in flight, and
\* the first tick starts a round without showing or decrementing a countdown.
C6_ImmediateFirstRound ==
    /\ [](~constructed =>
            /\ countdown_seconds = 0
            /\ ~is_pinging
            /\ rounds = <<>>
            /\ workq = <<>>)
    /\ [][~constructed =>
            /\ Submits
            /\ is_pinging'
            /\ Cardinality(InFlight') = 1
            /\ countdown_seconds' = countdown_seconds
            /\ timestamp' = timestamp]_vars

\* The state the first tick leaves: one probe per endpoint submitted, the
\* label and the rows as create_widgets made them.
C6_Witness ==
    /\ constructed
    /\ is_pinging
    /\ countdown_seconds = 0
    /\ Len(workq) = NumEndpoints
    /\ timestamp = UpdatingText
    /\ \A n \in Names : tree[n] = LoadingRow(n)

\* C7: a tick that fires while is_pinging is True leaves the flag, the
\* countdown, the executor, the rounds, the rows and the callback queue as
\* they were, shows "Updating..." and leaves one tick armed.
C7_TickWhileProbing ==
    [][(is_pinging /\ (InitTick \/ TimerTick)) =>
          /\ is_pinging'
          /\ countdown_seconds' = countdown_seconds
          /\ workq' = workq
          /\ rounds' = rounds
          /\ tree' = tree
          /\ queue' = queue
          /\ timestamp' = UpdatingText
          /\ tick_timers' = tick_timers]_vars

\* A tick has fired during a round that followed a countdown and is still
\* waiting for its probes.
C7_Witness ==
    /\ is_pinging
    /\ timestamp = UpdatingText
    /\ \E n \in Names : tree[n] # LoadingRow(n)
    /\ \E i \in InFlight : rounds[i].cpc = "collect"

\* A step in which a queued finish_pinging runs.
FinishRuns ==
    /\ Len(rounds') = Len(rounds)
    /\ \E i \in 1..Len(rounds) : rounds'[i].fincount > rounds[i].fincount

\* C8: finish_pinging leaves countdown_seconds = REFRESH_INTERVAL with no
\* round in flight; the countdown only changes by a tick taking one off or by
\* finish_pinging; and a round starts only at countdown 0.
C8_RearmAfterCompletion ==
    /\ [][FinishRuns =>
            /\ countdown_seconds' = REFRESH_INTERVAL
            /\ ~is_pinging'
            /\ InFlight' = {}]_vars
    /\ [][Submits => (countdown_seconds = 0 /\ countdown_seconds' = 0)]_vars
    /\ [][countdown_seconds' # countdown_seconds =>
            \/ /\ countdown_seconds' = countdown_seconds - 1
               /\ countdown_seconds > 0
               /\ TimerTick
               /\ ~Submits
            \/ /\ FinishRuns
               /\ countdown_seconds' = REFRESH_INTERVAL]_vars
    /\ [](countdown_seconds \in 0..REFRESH_INTERVAL)

\* The countdown has been taken down to 0 after a round; the next tick will
\* start the next round.
C8_Witness ==
    /\ constructed
    /\ ~is_pinging
    /\ countdown_seconds = 0
    /\ timestamp = NextUpdateText(1)
    /\ InFlight = {}

\* C9: when every probe eventually returns or raises, a round in flight leads
\* to the countdown re-armed at REFRESH_INTERVAL with the flag cleared, and
\* rounds are started again and again.
C9_ForwardProgress ==
    /\ is_pinging ~> (~is_pinging /\ countdown_seconds = REFRESH_INTERVAL)
    /\ []<><<Submits>>_vars

\* A later round has just been started: all its probes are still queued.
C9_Witness ==
    /\ is_pinging
    /\ Len(workq) = NumEndpoints
    /\ \A n \in Names : tree[n] # LoadingRow(n)

\* Executor calls of round r for endpoint n: still queued, or taken by a worker.
CallsOf(r, n) ==
    Cardinality({k \in 1..Len(workq) :
                    workq[k].rid = r.id /\ workq[k].name = n})
    + (IF r.fut[n].st = "queued" THEN 0 ELSE 1)

\* C10: a round submits one probe per endpoint, posts and runs at most one
\* update_row per endpoint and at most one finish_pinging, and when its
\* finish_pinging has run exactly one update_row per endpoint has run.
C10_ExactlyOnce ==
    \A i \in 1..Len(rounds) :
        LET r == rounds[i]
        IN  /\ \A n \in Names :
                  /\ r.submitted[n] = 1
                  /\ CallsOf(r, n) = 1
                  /\ r.updated[n] <= r.posted[n]
                  /\ r.posted[n] <= 1
                  /\ r.posted[n] = r.updated[n]
                        + Cardinality({k \in PendingUpdates(r.id) :
                                          queue[k].name = n})
            /\ r.fincount <= r.finposted
            /\ r.finposted <= 1
            /\ r.finposted = 1 => \A n \in Names : r.posted[n] = 1
            /\ r.fincount = 1 => \A n \in Names : r.updated[n] = 1

\* A completed round with every count at one, part of the countdown gone.
C10_Witness ==
    /\ countdown_seconds < REFRESH_INTERVAL
    /\ \E i \in 1..Len(rounds) :
          /\ rounds[i].fincount = 1
          /\ rounds[i].finposted = 1
          /\ \A n \in Names : /\ rounds[i].submitted[n] = 1
                              /\ rounds[i].posted[n] = 1
                              /\ rounds[i].updated[n] = 1

\* C11: is_pinging and countdown_seconds change only in steps of the timer
\* loop (countdown_tick with its run_pings, or a queued finish_pinging);
\* every step of a worker or of the collector thread leaves both as they are.
C11_SingleWriter ==
    /\ [][(is_pinging' # is_pinging \/ countdown_seconds' # countdown_seconds)
            => (InitTick \/ TimerTick \/ RunFinishPinging)]_vars
    /\ [][(WorkerStart \/ ProbeFinish \/ CollectResult \/ DispatchRow
              \/ PostFinish)
            => UNCHANGED <<is_pinging, countdown_seconds>>]_vars

\* Workers and the collector have done all their steps of a round and the
\* flag is still set, its finish_pinging waiting in the queue.
C11_Witness ==
    /\ is_pinging
    /\ countdown_seconds = 0
    /\ \E i \in 1..Len(rounds) :
          /\ rounds[i].cpc = "done"
          /\ rounds[i].fincount = 0
          /\ \A n \in Names : rounds[i].updated[n] = 1

\* C12: every sample run_ping returns satisfies 0 <= received <= sent and
\* len(times) = received.
C12_SampleWellFormed ==
    \A i \in 1..Len(rounds), n \in Names :
        rounds[i].fut[n].st = "result" =>
            LET res == rounds[i].fut[n].val
            IN  /\ 0 <= res.received
                /\ res.received <= res.sent
                /\ Len(res.times) = res.received

\* C19: no sample with received > 0 and no times reaches update_row, so the
\* branch that compares avg never finds it absent.
C19_AvgDefinedWhenCompared ==
    \A k \in 1..Len(queue) :
        (queue[k].cb = "update_row" /\ queue[k].result.received > 0)
            => /\ queue[k].result.times # <<>>
               /\ avg(queue[k].result) # AvgNone

\* C13: a sample given to update_row is shown as DOWN exactly when its
\* received is 0; a DOWN row shows "100%" and "-" for min, max and jitter,
\* and the sample's packet_loss is 100.0 whether sent is 0 or not.
C13_DownIffNoneReceived ==
    calc.pc = "shown" =>
        LET res == calc.sample
            row == tree[calc.name]
        IN  /\ (row.avg = Text("DOWN")) <=> (res.received = 0)
            /\ res.received = 0 =>
                  /\ row = DownRow(calc.name)
                  /\ row.loss = Text("100%")
                  /\ row.min = Text("-")
                  /\ row.max = Text("-")
                  /\ row.jitter = Text("-")
                  /\ packet_loss(res) = 10000

\* A sample with packets sent and none received is shown as DOWN.
C13_Witness ==
    /\ calc.pc = "shown"
    /\ ~calc.outcome.raised
    /\ calc.sample.sent = PING_COUNT
    /\ calc.sample.received = 0
    /\ tree[calc.name] = DownRow(calc.name)

\* C14: for every sample run_ping returns and for the PingResult() of the
\* except branch, packet_loss is within 0..100; it is 100.0 when sent is 0
\* and when sent > 0 with received 0.
C14_PacketLossRange ==
    LET InRange(res) ==
            /\ 0 <= packet_loss(res)
            /\ packet_loss(res) <= 10000
            /\ res.sent = 0 => packet_loss(res) = 10000
            /\ (res.sent > 0 /\ res.received = 0) => packet_loss(res) = 10000
    IN  /\ (calc.pc = "collect" /\ ~calc.outcome.raised)
              => InRange(calc.outcome.val)
        /\ calc.pc \in {"update_row", "shown"} => InRange(calc.sample)

\* run_ping raised and the fallback sample, with sent = 0, has 100% loss.
C14_Witness ==
    /\ calc.pc = "update_row"
    /\ calc.outcome.raised
    /\ calc.sample.sent = 0
    /\ packet_loss(calc.sample) = 10000

ShowsSeconds(k) == [t |-> "Next Update: s", n |-> k]

\* C16: a tick at countdown n > 0 with no round in flight shows n, leaves
\* n - 1 and starts no round; the countdown stays within 0..REFRESH_INTERVAL;
\* the values shown after a round are REFRESH_INTERVAL down to 1 in order, 0
\* is never shown, and the next round starts on the tick after 1 was shown.
C16_CountdownStepping ==
    /\ [][(~is_pinging /\ countdown_seconds > 0 /\ TimerTick) =>
            /\ timestamp' = ShowsSeconds(countdown_seconds)
            /\ countdown_seconds' = countdown_seconds - 1
            /\ ~is_pinging'
            /\ ~Submits
            /\ rounds' = rounds]_vars
    /\ [](countdown_seconds \in 0..REFRESH_INTERVAL)
    /\ [](\/ timestamp = UpdatingText
          \/ \E k \in 1..REFRESH_INTERVAL : timestamp = ShowsSeconds(k))
    /\ []((constructed /\ ~is_pinging /\ countdown_seconds < REFRESH_INTERVAL)
            => timestamp = ShowsSeconds(countdown_seconds + 1))
    /\ [][(constructed /\ Submits) =>
            /\ countdown_seconds = 0
            /\ timestamp = ShowsSeconds(1)
            /\ TimerTick]_vars

\* Three ticks after a round completed: 3 is shown and 2 is left.
C16_Witness ==
    /\ constructed
    /\ ~is_pinging
    /\ countdown_seconds = 2
    /\ timestamp = ShowsSeconds(3)
    /\ InFlight = {}

\* Some probe of some round has no outcome yet.
ProbeOutstanding ==
    \E i \in 1..Len(rounds) : ~AllSettled(rounds[i])

\* C17: run_pings returns with every probe it submitted still queued and a
\* tick armed; while a probe is outstanding a tick can always run, the flag
\* stays set, and such a tick shows "Updating..." and starts no round.
C17_LoopNeverBlocks ==
    /\ [][Submits =>
            /\ constructed'
            /\ tick_timers' > 0
            /\ \A n \in Names :
                  rounds'[Len(rounds')].fut[n].st = "queued"]_vars
    /\ [](ProbeOutstanding => (is_pinging /\ ENABLED TimerTick))
    /\ [][(ProbeOutstanding /\ TimerTick) =>
            /\ timestamp' = UpdatingText
            /\ is_pinging'
            /\ ~Submits
            /\ rounds' = rounds]_vars

\* A tick has fired in a later round while one probe is still running and
\* another has returned.
C17_Witness ==
    /\ is_pinging
    /\ timestamp = UpdatingText
    /\ tick_timers > 0
    /\ \E n \in Names : tree[n] # LoadingRow(n)
    /\ \E i \in 1..Len(rounds), n, m \in Names :
          /\ rounds[i].fut[n].st = "running"
          /\ rounds[i].fut[m].st = "result"

\* C18: the probes submitted and not finished never outnumber the pool's
\* threads, so a queued probe never has to wait for a running one to end.
C18_FullFanOut ==
    /\ Len(workq) + NumRunning <= max_workers
    /\ max_workers = Cardinality(Names)
    /\ workq # <<>> => NumRunning < max_workers

\* Every probe of a round is running at the same time.
C18_Witness ==
    /\ workq = <<>>
    /\ NumRunning = NumEndpoints
    /\ \E i \in 1..Len(rounds) :
          \A n \in Names : rounds[i].fut[n].st = "running"

\* C20: once __init__ has made its call of countdown_tick exactly one tick
\* is pending in every state, none before; the number of pending ticks is
\* changed by no step other than that first call.
C20_SingleTickChain ==
    /\ [](tick_timers = IF constructed THEN 1 ELSE 0)
    /\ [][tick_timers' # tick_timers => InitTick]_vars
    /\ [][(TimerTick \/ RunUpdateRow \/ RunFinishPinging \/ CollectResult
              \/ DispatchRow \/ PostFinish \/ WorkerStart \/ ProbeFinish)
            => tick_timers' = tick_timers]_vars

\* One tick is pending after ticks of all three branches have run: a round
\* started, "Updating..." was shown during it, and the countdown is under way.
C20_Witness ==
    /\ constructed
    /\ tick_timers = 1
    /\ ~is_pinging
    /\ countdown_seconds = 3
    /\ timestamp = NextUpdateText(4)
    /\ \A n \in Names : tree[n] # LoadingRow(n)

====
